---- MODULE Spec2Model ----
(***************************************************************************)
(* Model of src/main.py: the decoder of a pressure-therapy device log.     *)
(* main() runs a synchronous pipeline                                      *)
(*   read_bys_file -> parse_header -> print header -> parse_hex_data       *)
(*   -> analyze_pressure_data -> print report                              *)
(* inside one try/except that prints "Error: ..." for any exception.       *)
(* A hex string is a sequence of hex digits 0..15; text is a sequence of   *)
(* code points; a datetime is a record of its six calendar fields.         *)
(***************************************************************************)
EXTENDS Integers, Sequences, FiniteSets, TLC

VARIABLES file_exists, buffer, pc, hex_data, header_info, pressure_values,
          valid_pressures, analysis_results, chart, out, error, raised_in,
          exit_status

vars == <<file_exists, buffer, pc, hex_data, header_info, pressure_values,
          valid_pressures, analysis_results, chart, out, error, raised_in,
          exit_status>>

\* ---------------------------------------------------------------- bounds
\* Largest number of 2-byte samples that follow sample index 25 in a buffer.
MaxSamples == 5

\* ------------------------------------------------------ program constants
YearBase == 2000
PayloadStart == 26
HexBase == 16

\* Python's None for the error slots; a variable that holds a value once a
\* stage has produced it is Unset before and Some(v) after.
None == "None"
Unset == [set |-> FALSE]
Some(v) == [set |-> TRUE, val |-> v]

\* ------------------------------------------------------- generic helpers
Min2(a, b) == IF a <= b THEN a ELSE b
Max2(a, b) == IF a >= b THEN a ELSE b

\* Python's s[start:stop] on a sequence, negative indices counted from the end.
PySliceIndex(i, n) == IF i < 0 THEN Max2(n + i, 0) ELSE Min2(i, n)

PySlice(s, start, stop) ==
    LET lo == PySliceIndex(start, Len(s))
        hi == PySliceIndex(stop, Len(s))
    IN  IF lo >= hi THEN <<>> ELSE SubSeq(s, lo + 1, hi)

\* s[start:]
PySliceFrom(s, start) ==
    LET lo == PySliceIndex(start, Len(s))
    IN  IF lo >= Len(s) THEN <<>> ELSE SubSeq(s, lo + 1, Len(s))

\* ---------------------------------------------------------- read_bys_file
\* bytes.hex(): two hex digits per byte, high digit first.
RECURSIVE BytesHex(_)
BytesHex(bs) ==
    IF bs = <<>> THEN <<>>
    ELSE <<Head(bs) \div HexBase, Head(bs) % HexBase>> \o BytesHex(Tail(bs))

\* int(h, 16): the value of a hex-digit string; -1 stands for the ValueError
\* that int('', 16) raises.
RECURSIVE HexValue(_, _)
HexValue(h, acc) ==
    IF h = <<>> THEN acc ELSE HexValue(Tail(h), acc * HexBase + Head(h))

ParseInt(h) == IF h = <<>> THEN -1 ELSE HexValue(h, 0)

\* ------------------------------------------------------------- parse_time
IsLeap(y) == (y % 4 = 0) /\ ((y % 100 # 0) \/ (y % 400 = 0))

DaysInMonth(y, m) ==
    IF m = 2 THEN (IF IsLeap(y) THEN 29 ELSE 28)
    ELSE IF m \in {4, 6, 9, 11} THEN 30 ELSE 31

\* The range checks of the datetime constructor.
ValidDateTime(y, mo, d, h, mi, s) ==
    /\ y >= 1 /\ y <= 9999
    /\ mo >= 1 /\ mo <= 12
    /\ d >= 1 /\ d <= DaysInMonth(y, mo)
    /\ h >= 0 /\ h <= 23
    /\ mi >= 0 /\ mi <= 59
    /\ s >= 0 /\ s <= 59

\* A decoder that clamps the month into 1..12 instead of rejecting it.
parse_time_clamped(hex_str) ==
    LET y0 == ParseInt(PySlice(hex_str, 0, 2))
        m0 == ParseInt(PySlice(hex_str, 2, 4))
        mo == Max2(1, Min2(m0, 12))
        d  == ParseInt(PySlice(hex_str, 4, 6))
        h  == ParseInt(PySlice(hex_str, 6, 8))
        mi == ParseInt(PySlice(hex_str, 8, 10))
        s  == ParseInt(PySlice(hex_str, 10, 12))
    IN  IF y0 < 0 \/ m0 < 0 \/ d < 0 \/ h < 0 \/ mi < 0 \/ s < 0
        THEN [ok |-> FALSE, err |-> "ValueError:invalid literal"]
        ELSE IF ~ValidDateTime(y0 + YearBase, mo, d, h, mi, s)
        THEN [ok |-> FALSE, err |-> "ValueError:out of range"]
        ELSE [ok |-> TRUE,
              val |-> [year |-> y0 + YearBase, month |-> mo, day |-> d,
                       hour |-> h, minute |-> mi, second |-> s]]

\* Result: [ok |-> TRUE, val |-> datetime] or [ok |-> FALSE, err |-> kind].
parse_time(hex_str) ==
    LET y0 == ParseInt(PySlice(hex_str, 0, 2))
        mo == ParseInt(PySlice(hex_str, 2, 4))
        d  == ParseInt(PySlice(hex_str, 4, 6))
        h  == ParseInt(PySlice(hex_str, 6, 8))
        mi == ParseInt(PySlice(hex_str, 8, 10))
        s  == ParseInt(PySlice(hex_str, 10, 12))
    IN  IF y0 < 0 \/ mo < 0 \/ d < 0 \/ h < 0 \/ mi < 0 \/ s < 0
        THEN [ok |-> FALSE, err |-> "ValueError:invalid literal"]
        ELSE IF ~ValidDateTime(y0 + YearBase, mo, d, h, mi, s)
        THEN [ok |-> FALSE, err |-> "ValueError:out of range"]
        ELSE [ok |-> TRUE,
              val |-> [year |-> y0 + YearBase, month |-> mo, day |-> d,
                       hour |-> h, minute |-> mi, second |-> s]]

\* ----------------------------------------------------------- parse_header
\* bytes.fromhex on an even-length string of hex digits.
RECURSIVE BytesFromHex(_)
BytesFromHex(h) ==
    IF Len(h) < 2 THEN <<>>
    ELSE <<h[1] * HexBase + h[2]>> \o BytesFromHex(Tail(Tail(h)))

\* A decoder restricted to 7-bit input (it fails on bytes above 127).
DecodeAscii(bs) ==
    [ok |-> \A i \in 1..Len(bs) : bs[i] < 128, text |-> bs]

\* bytes.decode('latin1'): every byte is the code point of its character.
DecodeLatin1(bs) ==
    [ok |-> TRUE, text |-> bs]

\* "Unknown Model" as code points.
UnknownModel == <<85, 110, 107, 110, 111, 119, 110, 32, 77, 111, 100, 101, 108>>

parse_header(hd) ==
    LET start_time == parse_time(PySlice(hd, 0, 12))
        end_time   == parse_time(PySlice(hd, 12, 24))
        decoded    == DecodeLatin1(BytesFromHex(PySlice(hd, 64, 96)))
        device_model == IF decoded.ok THEN decoded.text ELSE UnknownModel
    IN  IF ~start_time.ok THEN [ok |-> FALSE, err |-> start_time.err]
        ELSE IF ~end_time.ok THEN [ok |-> FALSE, err |-> end_time.err]
        ELSE [ok |-> TRUE,
              val |-> [start_time |-> start_time.val,
                       end_time |-> end_time.val,
                       device_model |-> device_model]]

\* --------------------------------------------------------- parse_hex_data
RECURSIVE parse_hex_data(_)
parse_hex_data(hd) ==
    IF hd = <<>> THEN <<>>
    ELSE <<ParseInt(PySlice(hd, 0, 4))>> \o parse_hex_data(PySliceFrom(hd, 4))

\* -------------------------------------------------- analyze_pressure_data
\* The slice that also keeps the last sample: pressure_values[26:].
ValidPressuresKeepLast(pv) ==
    SelectSeq(PySliceFrom(pv, PayloadStart), LAMBDA v : v > 1)

\* The filter that also keeps the value 1.
ValidPressuresKeepOnes(pv) ==
    SelectSeq(PySlice(pv, PayloadStart, -1), LAMBDA v : v >= 1)

\* [value for value in pressure_values[26:-1] if value > 1]
ValidPressures(pv) ==
    SelectSeq(PySlice(pv, PayloadStart, -1), LAMBDA v : v > 1)

RECURSIVE SeqMax(_)
SeqMax(s) ==
    IF Len(s) = 1 THEN s[1] ELSE Max2(Head(s), SeqMax(Tail(s)))

RECURSIVE SeqMin(_)
SeqMin(s) ==
    IF Len(s) = 1 THEN s[1] ELSE Min2(Head(s), SeqMin(Tail(s)))

RECURSIVE InsertSorted(_, _)
InsertSorted(v, s) ==
    IF s = <<>> THEN <<v>>
    ELSE IF v <= Head(s) THEN <<v>> \o s
    ELSE <<Head(s)>> \o InsertSorted(v, Tail(s))

RECURSIVE Sorted(_)
Sorted(s) ==
    IF s = <<>> THEN <<>> ELSE InsertSorted(Head(s), Sorted(Tail(s)))

\* A median that takes the upper central value of an even count.
MedianUpper(s) ==
    LET srt == Sorted(s)
        n   == Len(s)
    IN  [num |-> srt[(n \div 2) + 1], den |-> 1]

\* np.median: the middle of the sorted values, or the mean of the two
\* central ones.  The value is the rational num/den.
Median(s) ==
    LET srt == Sorted(s)
        n   == Len(s)
    IN  IF n % 2 = 1
        THEN [num |-> srt[(n + 1) \div 2], den |-> 1]
        ELSE [num |-> srt[n \div 2] + srt[(n \div 2) + 1], den |-> 2]

\* date + k days, one day at a time.
RECURSIVE AddDays(_, _)
AddDays(dt, k) ==
    IF k = 0 THEN dt
    ELSE IF dt.day < DaysInMonth(dt.year, dt.month)
         THEN AddDays([dt EXCEPT !.day = dt.day + 1], k - 1)
    ELSE IF dt.month < 12
         THEN AddDays([dt EXCEPT !.day = 1, !.month = dt.month + 1], k - 1)
    ELSE AddDays([dt EXCEPT !.day = 1, !.month = 1, !.year = dt.year + 1], k - 1)

\* datetime + timedelta(minutes=n): carry minutes into hours into days.
AddMinutes(dt, n) ==
    LET total_min  == dt.minute + n
        total_hour == dt.hour + (total_min \div 60)
    IN  AddDays([dt EXCEPT !.minute = total_min % 60,
                           !.hour = total_hour % 24],
                total_hour \div 24)

\* An axis whose first element is one minute after start_time.
TimeAxisFromOne(start_time, sleep_mins) ==
    [i \in 1..sleep_mins |-> AddMinutes(start_time, i)]

\* [start_time + timedelta(minutes=i) for i in range(sleep_mins)]
TimeAxis(start_time, sleep_mins) ==
    [i \in 1..sleep_mins |-> AddMinutes(start_time, i - 1)]

\* ------------------------------------------------------------ the inputs
Be16(v) == <<v \div 256, v % 256>>

RECURSIVE SamplesToBytes(_)
SamplesToBytes(s) ==
    IF s = <<>> THEN <<>> ELSE Be16(Head(s)) \o SamplesToBytes(Tail(s))

SampleVals == {1, 2, 7, 300}

ModelYH == <<89, 72, 53, 54, 48, 65, 45, 50, 52, 51, 50, 50, 48, 52, 57, 50>>
ModelHigh == <<255, 128, 0, 127, 233, 65, 66, 67, 68, 69, 70, 71, 72, 73, 74, 200>>

\* start_time bytes, end_time bytes, device_model bytes
HeaderChoices ==
    { <<<<24, 6, 11, 22, 33, 0>>,    <<24, 6, 12, 6, 29, 0>>,  ModelYH>>,
      <<<<23, 12, 31, 23, 58, 0>>,   <<24, 1, 1, 6, 0, 0>>,    ModelHigh>>,
      <<<<24, 2, 28, 23, 59, 59>>,   <<24, 2, 29, 7, 0, 0>>,   ModelHigh>>,
      <<<<255, 12, 31, 23, 59, 59>>, <<24, 6, 12, 6, 29, 0>>,  ModelYH>>,
      <<<<24, 13, 1, 0, 0, 0>>,      <<24, 6, 12, 6, 29, 0>>,  ModelYH>>,
      <<<<23, 2, 29, 0, 0, 0>>,      <<24, 6, 12, 6, 29, 0>>,  ModelHigh>>,
      <<<<24, 6, 11, 22, 33, 0>>,    <<24, 6, 12, 24, 0, 0>>,  ModelYH>>,
      <<<<0, 0, 0, 0, 0, 0>>,        <<0, 0, 0, 0, 0, 0>>,     ModelHigh>> }

Zeros(n) == [i \in 1..n |-> 0]

\* Bytes [0,48) of the layout followed by samples 24 and 25.
HeaderBytes(c) == c[1] \o c[2] \o Zeros(20) \o c[3] \o <<0, 9, 1, 44>>

Payloads == UNION { [1..n -> SampleVals] : n \in 0..MaxSamples }

OddTails == { <<>>, <<3>> }

Buffers ==
    { SubSeq(HeaderBytes(c), 1, n) : c \in HeaderChoices, n \in 0..52 }
    \cup
    { HeaderBytes(c) \o SamplesToBytes(p) \o t :
        c \in HeaderChoices, p \in Payloads, t \in OddTails }

\* --------------------------------------------------------------- main()
Init ==
    /\ file_exists \in BOOLEAN
    /\ buffer \in (IF file_exists THEN Buffers ELSE {<<>>})
    /\ pc = "read_bys_file"
    /\ hex_data = Unset
    /\ header_info = Unset
    /\ pressure_values = Unset
    /\ valid_pressures = Unset
    /\ analysis_results = Unset
    /\ chart = Unset
    /\ out = <<>>
    /\ error = None
    /\ raised_in = None
    /\ exit_status = Unset

\* hex_data = read_bys_file(file_path)
ReadFile ==
    /\ pc = "read_bys_file"
    /\ IF ~file_exists
       THEN /\ error' = "FileNotFoundError"
            /\ raised_in' = "read_bys_file"
            /\ pc' = "except"
            /\ UNCHANGED hex_data
       ELSE /\ hex_data' = Some(BytesHex(buffer))
            /\ pc' = "parse_header"
            /\ UNCHANGED <<error, raised_in>>
    /\ UNCHANGED <<valid_pressures, file_exists, buffer, header_info, pressure_values,
                   analysis_results, chart, out, exit_status>>

\* header_info = parse_header(hex_data)
ParseHeader ==
    /\ pc = "parse_header"
    /\ LET r == parse_header(hex_data.val)
       IN  IF r.ok
           THEN /\ header_info' = Some(r.val)
                /\ pc' = "print_header"
                /\ UNCHANGED <<error, raised_in>>
           ELSE /\ error' = r.err
                /\ raised_in' = "parse_header"
                /\ pc' = "except"
                /\ UNCHANGED header_info
    /\ UNCHANGED <<valid_pressures, file_exists, buffer, hex_data, pressure_values,
                   analysis_results, chart, out, exit_status>>

\* the three print calls after parse_header
PrintHeader ==
    /\ pc = "print_header"
    /\ out' = out \o <<"start_time", "end_time", "device_model">>
    /\ pc' = "parse_hex_data"
    /\ UNCHANGED <<valid_pressures, file_exists, buffer, hex_data, header_info,
                   pressure_values,
                   analysis_results, chart, error, raised_in, exit_status>>

\* pressure_values = parse_hex_data(hex_data)
ParseSamples ==
    /\ pc = "parse_hex_data"
    /\ pressure_values' = Some(parse_hex_data(hex_data.val))
    /\ pc' = "analyze_pressure_data"
    /\ UNCHANGED <<valid_pressures, file_exists, buffer, hex_data, header_info,
                   analysis_results, chart, out, error, raised_in, exit_status>>

\* analysis_results = analyze_pressure_data(start_time, pressure_values)
Analyze ==
    /\ pc = "analyze_pressure_data"
    /\ LET valid == ValidPressures(pressure_values.val)
           sleep_mins == Len(valid)
       IN  IF valid = <<>>
           THEN /\ error' = "ValueError:No valid pressure values found."
                /\ raised_in' = "analyze_pressure_data"
                /\ pc' = "except"
                /\ valid_pressures' = Some(valid)
                /\ UNCHANGED <<analysis_results, chart>>
           ELSE /\ valid_pressures' = Some(valid)
                /\ chart' = Some(
                      [x |-> TimeAxis(header_info.val.start_time, sleep_mins),
                       y |-> valid,
                       max_line |-> SeqMax(valid),
                       min_line |-> SeqMin(valid),
                       median_line |-> Median(valid)])
                /\ analysis_results' = Some(
                      [sleep_mins |-> sleep_mins,
                       max_pressure |-> SeqMax(valid),
                       min_pressure |-> SeqMin(valid),
                       median_pressure |-> Median(valid),
                       valid_pressures |-> valid])
                /\ pc' = "print_report"
                /\ UNCHANGED <<error, raised_in>>
    /\ UNCHANGED <<file_exists, buffer, hex_data, header_info, pressure_values,
                   out, exit_status>>

\* the five print calls after analyze_pressure_data
PrintReport ==
    /\ pc = "print_report"
    /\ out' = out \o <<"sleep_mins", "max_pressure", "min_pressure",
                       "median_pressure", "preview">>
    /\ pc' = "exit"
    /\ UNCHANGED <<valid_pressures, file_exists, buffer, hex_data, header_info,
                   pressure_values,
                   analysis_results, chart, error, raised_in, exit_status>>

\* except Exception as e: print(f"Error: {e}")
Except ==
    /\ pc = "except"
    /\ out' = Append(out, "Error")
    /\ pc' = "exit"
    /\ UNCHANGED <<valid_pressures, file_exists, buffer, hex_data, header_info,
                   pressure_values,
                   analysis_results, chart, error, raised_in, exit_status>>

\* main() returns and the interpreter exits with status 0.
Exit ==
    /\ pc = "exit"
    /\ exit_status' = Some(0)
    /\ pc' = "done"
    /\ UNCHANGED <<valid_pressures, file_exists, buffer, hex_data, header_info,
                   pressure_values,
                   analysis_results, chart, out, error, raised_in>>

Next ==
    \/ ReadFile
    \/ ParseHeader
    \/ PrintHeader
    \/ ParseSamples
    \/ Analyze
    \/ PrintReport
    \/ Except
    \/ Exit

Spec == Init /\ [][Next]_vars

\* ================================================================ claims
NoValidDataError == "ValueError:No valid pressure values found."

HeaderLines == {"start_time", "end_time", "device_model"}
AnalysisLines == {"sleep_mins", "max_pressure", "min_pressure",
                  "median_pressure", "preview"}
ReportLines == HeaderLines \cup AnalysisLines

Printed(tag) == \E i \in 1..Len(out) : out[i] = tag
TimesPrinted(tag) == Cardinality({i \in 1..Len(out) : out[i] = tag})

HeaderStepDone == file_exists /\ pc \notin {"read_bys_file", "parse_header"}
AnalyzeStepDone == valid_pressures.set

\* 1-based positions of pressure_values whose 0-based index k satisfies
\* 26 <= k < len - 1 and whose value exceeds 1.
ValidPositions ==
    {p \in 1..Len(pressure_values.val) :
        /\ p - 1 >= 26
        /\ p - 1 < Len(pressure_values.val) - 1
        /\ pressure_values.val[p] > 1}

\* The fields a 6-byte group denotes, read literally.
GroupFields(b) ==
    [year |-> b[1] + 2000, month |-> b[2], day |-> b[3],
     hour |-> b[4], minute |-> b[5], second |-> b[6]]

GroupIsCalendar(b) ==
    ValidDateTime(b[1] + 2000, b[2], b[3], b[4], b[5], b[6])

StartGroup == SubSeq(buffer, 1, 6)
EndGroup == SubSeq(buffer, 7, 12)

\* C1: the valid samples analyze_pressure_data computes are exactly the
\* elements of the sample sequence at indices 26 <= k < len-1 whose value
\* is > 1, in their original order; the last element is never among them.
C1_ValidSamplesAreFilteredSlice ==
    AnalyzeStepDone =>
        /\ Len(valid_pressures.val) = Cardinality(ValidPositions)
        /\ \A p \in ValidPositions :
              valid_pressures.val[Cardinality({q \in ValidPositions : q <= p})]
                 = pressure_values.val[p]
        /\ \A i \in 1..Len(valid_pressures.val) : valid_pressures.val[i] > 1

C1_Witness ==
    /\ AnalyzeStepDone
    /\ Len(pressure_values.val) >= 30
    /\ pressure_values.val[Len(pressure_values.val)] > 1
    /\ \E p \in 27..(Len(pressure_values.val) - 1) : pressure_values.val[p] <= 1
    /\ Len(valid_pressures.val) >= 2
    /\ valid_pressures.val[1] # valid_pressures.val[2]

\* C2: the decoded sample sequence has exactly floor(len(B)/2) elements,
\* sample k being 256*B[2k] + B[2k+1]; an unpaired final byte of an
\* odd-length buffer contributes no element.
C2_SamplesArePairsOnly ==
    pressure_values.set =>
        /\ Len(pressure_values.val) = Len(buffer) \div 2
        /\ \A k \in 0..((Len(buffer) \div 2) - 1) :
              pressure_values.val[k + 1] = 256 * buffer[2 * k + 1] + buffer[2 * k + 2]

\* k-th smallest element of v (1-based), stated by counting.
IsOrderStat(v, k, x) ==
    /\ \E i \in 1..Len(v) : v[i] = x
    /\ Cardinality({i \in 1..Len(v) : v[i] < x}) < k
    /\ k <= Cardinality({i \in 1..Len(v) : v[i] <= x})

\* C3: on success sleep_mins is the number of valid samples, max_pressure
\* and min_pressure are the largest and smallest valid sample, and
\* median_pressure is the statistical median (middle value for an odd
\* count, mean of the two central values for an even count), so that
\* min_pressure <= median_pressure <= max_pressure.
C3_StatisticsConsistent ==
    analysis_results.set =>
        LET r == analysis_results.val
            v == valid_pressures.val
            n == Len(v)
            m == r.median_pressure
        IN  /\ n > 0
            /\ r.valid_pressures = v
            /\ r.sleep_mins = n
            /\ \E i \in 1..n : v[i] = r.max_pressure
            /\ \A i \in 1..n : v[i] <= r.max_pressure
            /\ \E i \in 1..n : v[i] = r.min_pressure
            /\ \A i \in 1..n : v[i] >= r.min_pressure
            /\ IF n % 2 = 1
               THEN m.den = 1 /\ IsOrderStat(v, (n + 1) \div 2, m.num)
               ELSE /\ m.den = 2
                    /\ \E i, j \in 1..n :
                          /\ IsOrderStat(v, n \div 2, v[i])
                          /\ IsOrderStat(v, (n \div 2) + 1, v[j])
                          /\ m.num = v[i] + v[j]
            /\ r.min_pressure * m.den <= m.num
            /\ m.num <= r.max_pressure * m.den

C3_Witness ==
    /\ analysis_results.set
    /\ analysis_results.val.sleep_mins = 4
    /\ valid_pressures.val[1] > valid_pressures.val[2]
    /\ analysis_results.val.median_pressure.den = 2
    /\ analysis_results.val.min_pressure * 2 < analysis_results.val.median_pressure.num
    /\ analysis_results.val.median_pressure.num < analysis_results.val.max_pressure * 2

\* Minutes from 2000-01-01 00:00 to the minute of dt, by counting days.
DaysBeforeYear(y) ==
    365 * (y - 2000) + Cardinality({yy \in 2000..(y - 1) : IsLeap(yy)})

RECURSIVE DaysBeforeMonth(_, _)
DaysBeforeMonth(y, m) ==
    IF m = 1 THEN 0 ELSE DaysBeforeMonth(y, m - 1) + DaysInMonth(y, m - 1)

MinuteOrdinal(dt) ==
    ((DaysBeforeYear(dt.year) + DaysBeforeMonth(dt.year, dt.month)
        + (dt.day - 1)) * 24 + dt.hour) * 60 + dt.minute

C6_ShortBufferFailsBeforeDecoding ==
    (file_exists /\ Len(buffer) < 48 /\ pc = "done") =>
        /\ raised_in = "parse_header"
        /\ ~header_info.set
        /\ ~pressure_values.set

\* C7: analyze_pressure_data fails with NoValidData exactly when no sample
\* at an index in [26, len-1) exceeds 1 (in particular when there are at
\* most 27 samples); then no chart is rendered and no result is returned,
\* and otherwise the analysis does not fail.
C7_NoValidDataIffEmpty ==
    AnalyzeStepDone =>
        /\ (error = NoValidDataError) <=> (ValidPositions = {})
        /\ (Len(pressure_values.val) <= 27) => (error = NoValidDataError)
        /\ (error = NoValidDataError) =>
              /\ raised_in = "analyze_pressure_data"
              /\ ~chart.set
              /\ ~analysis_results.set
        /\ (ValidPositions # {}) =>
              /\ error = None
              /\ chart.set
              /\ analysis_results.set

C7_Witness ==
    /\ AnalyzeStepDone
    /\ error = NoValidDataError
    /\ Len(pressure_values.val) >= 29
    /\ ~chart.set

\* C8: a run of main that ends in a fatal error has printed none of the
\* report lines.
C8_NoReportLineOnFailure ==
    (pc = "done" /\ error # None) =>
        \A i \in 1..Len(out) : out[i] \notin ReportLines

\* C9: every failure reaches the top level, is printed exactly once, stops
\* the later stages, and ends the process with a failure indication that
\* distinguishes the run from a successful one; every run ends with the
\* complete report or with such an indication.
C9_FailureIsIndicated ==
    (pc = "done") =>
        IF error # None
        THEN /\ TimesPrinted("Error") = 1
             /\ out[Len(out)] = "Error"
             /\ ~analysis_results.set
             /\ exit_status.val # 0
        ELSE /\ \A t \in ReportLines : TimesPrinted(t) = 1
             /\ ~Printed("Error")
             /\ exit_status.val = 0

====
